---- MODULE Spec2Model ----
(***************************************************************************)
(* Model of app.py, the Streamlit script of github_summarizer.             *)
(*                                                                         *)
(* Streamlit executes main() from top to bottom on every user interaction  *)
(* (a "rerun"); st.session_state survives between reruns.  The model keeps *)
(* the six session fields, the widget values of the current rerun, the     *)
(* position of main() inside the rerun and the futures of the two          *)
(* ThreadPoolExecutor blocks.  External services (the hosting provider,    *)
(* the reader, the index builders, the chat engines) are nondeterministic: *)
(* each call either returns or raises.                                     *)
(*                                                                         *)
(* Strings that the code parses (the URL) are sequences of tokens: a token *)
(* is "://", "/" or a piece of text that contains neither.                 *)
(***************************************************************************)
EXTENDS Integers, Sequences, FiniteSets, TLC

(***************************************************************************)
(* Bounds of the model.                                                    *)
(***************************************************************************)
\* longest path of an entered URL, in segments
MaxSegments == 3
\* load_documents is invoked at most this many times in a session
MaxFetches == 2
\* chat_history grows to at most this many entries
MaxHistory == 2

(***************************************************************************)
(* Values.                                                                 *)
(***************************************************************************)
\* Python's None
None == [kind |-> "None"]
\* a Python str, as its token sequence
Str(tokens) == [kind |-> "str", s |-> tokens]

Schemes == {"https", "http", "ftp"}
Hosts == {"github.com", "not-github.com"}
Names == {"o", "r"}
Branches == {"", "main"}
ExcludedDirs == {<<>>, <<"docs">>}
Questions == {"", "q1", "q2"}

(***************************************************************************)
(* The URLs a user may type: scheme://host followed by a path of up to     *)
(* MaxSegments segments, each introduced by "/", or by the path "/"; the   *)
(* same without scheme; and the empty text.                                *)
(***************************************************************************)
RECURSIVE JoinPath(_)
JoinPath(segs) ==
    IF segs = <<>> THEN <<>>
    ELSE <<"/", Head(segs)>> \o JoinPath(Tail(segs))

SegmentLists == UNION {[1..n -> Names] : n \in 0..MaxSegments}

Paths == {JoinPath(segs) : segs \in SegmentLists} \cup {<<"/">>}

Urls == {<<sc, "://", h>> \o p : sc \in Schemes, h \in Hosts, p \in Paths}
            \cup {<<h>> \o p : h \in Hosts, p \in Paths}
            \cup {<<>>}

(***************************************************************************)
(* urllib.parse.urlparse, on token sequences: the scheme is what precedes  *)
(* "://", the netloc runs up to the first "/", the path is the rest.       *)
(* Without "://" the whole text is the path.                               *)
(***************************************************************************)
RECURSIVE UpToSlash(_)
UpToSlash(s) ==
    IF s = <<>> \/ Head(s) = "/" THEN <<>>
    ELSE <<Head(s)>> \o UpToSlash(Tail(s))

urlparse(url) ==
    IF Len(url) >= 2 /\ url[2] = "://"
    THEN LET rest == SubSeq(url, 3, Len(url))
             loc == UpToSlash(rest)
         IN [scheme |-> url[1],
             netloc |-> loc,
             path |-> SubSeq(rest, Len(loc) + 1, Len(rest))]
    ELSE [scheme |-> "", netloc |-> <<>>, path |-> url]

\* str.strip("/")
RECURSIVE lstrip(_)
lstrip(s) == IF s # <<>> /\ Head(s) = "/" THEN lstrip(Tail(s)) ELSE s

RECURSIVE rstrip(_)
rstrip(s) ==
    IF s # <<>> /\ s[Len(s)] = "/" THEN rstrip(SubSeq(s, 1, Len(s) - 1)) ELSE s

strip(s) == rstrip(lstrip(s))

\* str.count("/")
RECURSIVE count(_)
count(s) ==
    IF s = <<>> THEN 0
    ELSE (IF Head(s) = "/" THEN 1 ELSE 0) + count(Tail(s))

\* str.split("/", 1): one or two pieces
split1(s) ==
    LET before == UpToSlash(s)
    IN IF Len(before) = Len(s) THEN <<s>>
       ELSE <<before, SubSeq(s, Len(before) + 2, Len(s))>>

\* str.startswith("/")
startswith(s) == s # <<>> /\ Head(s) = "/"

extract_github_details(url) ==
    LET path == strip(urlparse(url).path)
    IN IF count(path) = 1
       THEN <<Str(split1(path)[1]), Str(split1(path)[2])>>
       ELSE <<None, None>>

is_valid_github_url(url) ==
    LET parsed_url == urlparse(url)
    IN /\ parsed_url.scheme \in {"http", "https"}
       /\ parsed_url.netloc = <<"github.com">>
       /\ startswith(parsed_url.path)

\* user, repo = path.split("/", 1) raises ValueError unless there are two pieces
UnpackRaisesValueError(url) == Len(split1(strip(urlparse(url).path))) # 2

(***************************************************************************)
(* The external collaborators.  What they return is opaque; the model      *)
(* keeps what each result was made from.  The serial number of the fetch   *)
(* tells apart two document sets, and so two indices, made from equal      *)
(* arguments.                                                              *)
(***************************************************************************)
GithubClient == [kind |-> "GithubClient"]

load_documents(client, usr, rp, excluded, br, serial) ==
    [kind |-> "documents", user |-> usr, repo |-> rp, branch |-> br,
     excluded_dirs |-> excluded, fetch |-> serial]

create_index(docs) == [kind |-> "VectorStoreIndex", documents |-> docs]

create_summary(docs) == [kind |-> "SummaryIndex", documents |-> docs]

as_chat_engine(idx) == [kind |-> "chat_engine", index |-> idx]

\* the object engine.chat(q) or engine.query(q) returns; .response is its
\* text, a token sequence that depends on the kind of index the engine
\* reads and on q
Response(engine, q) ==
    [kind |-> "response", engine |-> engine,
     response |-> <<engine.index.kind, q>>]

(***************************************************************************)
(* State.                                                                  *)
(***************************************************************************)
VARIABLES
    \* st.session_state
    in_session,             \* 'github_client' in st.session_state
    github_client,
    index,
    summary,
    query_engine,
    summary_query_engine,
    chat_history,
    \* widget values of the rerun in progress
    github_repo_link,       \* kept only while the link itself is examined
    branch,
    excluded_dirs,
    question,
    submit,                 \* st.button("Submit Question")
    \* which widgets the latest rerun rendered
    branch_shown,
    question_shown,
    \* main(): position and locals
    pc,
    user,
    repo,
    documents,
    summary_response,
    achat_response,
    \* the futures of the two executor blocks
    future_documents,
    future_index,
    future_summary,
    future_summary_query,
    future_achat,
    \* what the rerun showed the user: "none", "format", "not_exist", "exception"
    error,
    \* history of the session, kept for the properties only
    calls,                  \* number of invocations, per function
    last_fetch,             \* arguments of the latest load_documents call
    repeated,               \* load_documents was invoked twice in a row
                            \* with equal arguments
    answered,               \* what the retrieval engine answered, per joined pair
    link_checks,            \* what the latest rerun called on its link
    in_flight               \* running invocations, per engine

session == <<github_client, index, summary, query_engine, summary_query_engine,
             chat_history>>
widgets == <<github_repo_link, branch, excluded_dirs, question, submit>>
rendered == <<branch_shown, question_shown>>
locals == <<user, repo, documents, summary_response, achat_response>>
build_futures == <<future_documents, future_index, future_summary>>
query_futures == <<future_summary_query, future_achat>>
futures == <<build_futures, query_futures>>
history == <<calls, last_fetch, repeated, answered, link_checks, in_flight>>
vars == <<in_session, session, widgets, rendered, pc, locals, futures, error,
          history>>

Unset == [state |-> "unset"]
Running(args) == [state |-> "running", args |-> args]
Done(f, result) == [state |-> "done", args |-> f.args, result |-> result]
Raised(f) == [state |-> "raised", args |-> f.args]
Finished(f) == f.state \in {"unset", "done", "raised"}

NoCalls == [load_documents |-> 0, create_index |-> 0, create_summary |-> 0]

NoneInFlight == [query_engine |-> 0, summary_query_engine |-> 0]

Init ==
    /\ in_session = FALSE
    /\ github_client = None
    /\ index = None
    /\ summary = None
    /\ query_engine = None
    /\ summary_query_engine = None
    /\ chat_history = <<>>
    /\ github_repo_link = <<>>
    /\ branch = ""
    /\ excluded_dirs = <<>>
    /\ question = ""
    /\ submit = FALSE
    /\ branch_shown = FALSE
    /\ question_shown = FALSE
    /\ pc = "idle"
    /\ user = None
    /\ repo = None
    /\ documents = None
    /\ summary_response = None
    /\ achat_response = None
    /\ future_documents = Unset
    /\ future_index = Unset
    /\ future_summary = Unset
    /\ future_summary_query = Unset
    /\ future_achat = Unset
    /\ error = "none"
    /\ calls = NoCalls
    /\ last_fetch = None
    /\ repeated = FALSE
    /\ answered = <<>>
    /\ link_checks = {}
    /\ in_flight = NoneInFlight

(***************************************************************************)
(* The end of a rerun: main() returns, or an exception leaves it and       *)
(* Streamlit shows it.  Locals and futures are gone; the widget values are *)
(* chosen anew by the next interaction.                                    *)
(***************************************************************************)
EndRun(shown) ==
    /\ pc' = "idle"
    /\ error' = shown
    /\ github_repo_link' = <<>>
    /\ branch' = ""
    /\ excluded_dirs' = <<>>
    /\ question' = ""
    /\ submit' = FALSE
    /\ user' = None
    /\ repo' = None
    /\ documents' = None
    /\ summary_response' = None
    /\ achat_response' = None
    /\ future_documents' = Unset
    /\ future_index' = Unset
    /\ future_summary' = Unset
    /\ future_summary_query' = Unset
    /\ future_achat' = Unset

(***************************************************************************)
(* main(), lines 117-133: a user interaction starts a rerun.  The branch,  *)
(* the exclusion list, the question and the button can only have been      *)
(* touched if the previous rerun rendered them.                            *)
(***************************************************************************)
\* mutant: the session fields are initialised again on every rerun
SessionMissingAlways == TRUE

\* line 118: 'github_client' not in st.session_state
SessionMissing == ~in_session

\* mutant: the data is processed again on every rerun
NeedsProcessingAlways(idx, summ) == TRUE

\* line 178: st.session_state.index is None or st.session_state.summary is None
NeedsProcessing(idx, summ) == idx = None \/ summ = None

\* lines 68-77; status is what requests.get does when it returns
check_github_repo_exists(url, status) ==
    IF UnpackRaisesValueError(url) THEN FALSE ELSE status = "200"

\* what the rerun does with the link: "empty", "format" (line 131),
\* "not_exist" (line 242), "exception" (requests.get raised) or "exists"
Verdict(url, status) ==
    IF url = <<>> THEN "empty"
    ELSE IF ~is_valid_github_url(url) THEN "format"
    ELSE IF ~UnpackRaisesValueError(url) /\ status = "error" THEN "exception"
    ELSE IF check_github_repo_exists(url, status) THEN "exists"
    ELSE "not_exist"

\* mutant: the existence check is made whatever the validation says
ExistenceCheckedAlways(url) == TRUE

\* lines 130-133: check_github_repo_exists is called for a link that passed
\* is_valid_github_url
ExistenceChecked(url) == is_valid_github_url(url)

\* lines 71-74: requests.get is called unless line 72 raised
RequestsGet(url) == ExistenceChecked(url) /\ ~UnpackRaisesValueError(url)

\* what requests.get may do for the link: nothing is requested for a link
\* that fails validation or that raises the ValueError of line 72
Statuses(url) ==
    IF RequestsGet(url)
    THEN {"200", "404", "error"}
    ELSE {"none"}

\* lines 129-133, 68-77: what a rerun calls on its link
LinkChecks(url) ==
    IF url = <<>> THEN {}
    ELSE {"is_valid_github_url"}
         \cup (IF ExistenceChecked(url)
               THEN {"check_github_repo_exists"} ELSE {})
         \cup (IF RequestsGet(url) THEN {"requests.get"} ELSE {})

\* what lines 129-137 make of a link: the verdict, and for a repository
\* that exists the owner and repository of line 137
LinkOutcome(url, status) ==
    [verdict |-> Verdict(url, status),
     checks |-> LinkChecks(url),
     details |-> IF Verdict(url, status) = "exists"
                 THEN extract_github_details(url) ELSE <<None, None>>]

\* main() reads the link through these functions only, so a rerun is
\* determined by the outcome of its link: the outcomes of all links of the
\* model, for every response of the hosting provider
LinkOutcomes ==
    UNION {{LinkOutcome(url, status) : status \in Statuses(url)} :
              url \in Urls}

\* the branch and the exclusion list are read at lines 138-171 only, and
\* can have been filled in only if the previous rerun rendered their boxes
BranchInputs(link) ==
    IF link.verdict = "exists" /\ branch_shown THEN Branches ELSE {""}

ExcludedInputs(link) ==
    IF link.verdict = "exists" /\ branch_shown THEN ExcludedDirs ELSE {<<>>}

\* mutant: the client is created before the existence check
ClientForBeforeCheck(verdict, current) ==
    IF verdict \in {"exists", "not_exist"} /\ current = None
    THEN GithubClient ELSE current

\* lines 133-135: the client is created once, and only for an existing
\* repository
ClientFor(verdict, current) ==
    IF verdict = "exists" /\ current = None THEN GithubClient ELSE current

(***************************************************************************)
(* Lines 117-182.  link is the outcome of the link in the text box, for    *)
(* what requests.get did; br and ex are the branch and the exclusion list  *)
(* read at lines 138-171.  Inputs that the rerun never reads are left at   *)
(* their defaults.                                                         *)
(***************************************************************************)
Rerun(link, br, ex) ==
    /\ pc = "idle"
    /\ (br # "" \/ ex # <<>>) => branch_shown
    /\ NeedsProcessing(index, summary) => calls.load_documents < MaxFetches
    \* lines 118-124
    /\ in_session' = TRUE
    /\ index' = IF SessionMissing THEN None ELSE index
    /\ summary' = IF SessionMissing THEN None ELSE summary
    /\ query_engine' = IF SessionMissing THEN None ELSE query_engine
    /\ summary_query_engine' =
           IF SessionMissing THEN None ELSE summary_query_engine
    /\ chat_history' = IF SessionMissing THEN <<>> ELSE chat_history
    /\ link_checks' = link.checks
    /\ UNCHANGED <<answered, in_flight>>
    \* lines 127-182
    /\ IF link.verdict # "exists"
       THEN /\ EndRun(IF link.verdict = "empty" THEN "none"
                      ELSE link.verdict)
            /\ github_client' =
                   ClientFor(link.verdict,
                             IF SessionMissing THEN None ELSE github_client)
            /\ branch_shown' = FALSE
            /\ question_shown' = FALSE
            /\ UNCHANGED <<calls, last_fetch, repeated>>
       ELSE LET details == link.details
                client == ClientFor(link.verdict,
                                    IF SessionMissing THEN None
                                    ELSE github_client)
                args == [github_client |-> client, user |-> details[1],
                         repo |-> details[2], excluded_dirs |-> ex,
                         branch |-> br]
            IN /\ github_client' = client
               /\ github_repo_link' = <<>>
               /\ user' = details[1]
               /\ repo' = details[2]
               /\ branch' = br
               /\ excluded_dirs' = ex
               /\ branch_shown' = TRUE
               /\ error' = "none"
               /\ IF NeedsProcessing(index', summary')
                  THEN /\ future_documents' = Running(args)
                       /\ calls' = [calls EXCEPT !.load_documents = @ + 1]
                       /\ last_fetch' = args
                       /\ repeated' = (repeated \/ args = last_fetch)
                       /\ pc' = "line183"
                  ELSE /\ pc' = "line189"
                       /\ UNCHANGED <<future_documents, calls, last_fetch,
                                      repeated>>
               /\ UNCHANGED <<question, submit, question_shown, documents,
                              summary_response, achat_response, future_index,
                              future_summary, query_futures>>

(***************************************************************************)
(* The worker running load_documents (lines 17-42) returns or raises.      *)
(***************************************************************************)
LoadDocumentsTask(ok) ==
    /\ future_documents.state = "running"
    /\ future_documents' =
           IF ok
           THEN Done(future_documents,
                     load_documents(future_documents.args.github_client,
                                    future_documents.args.user,
                                    future_documents.args.repo,
                                    future_documents.args.excluded_dirs,
                                    future_documents.args.branch,
                                    calls.load_documents))
           ELSE Raised(future_documents)
    /\ UNCHANGED <<in_session, session, widgets, rendered, pc, locals,
                   future_index, future_summary, query_futures, error, history>>

\* mutant: main() waits for documents that a failed fetch never delivers
AwaitDocumentsBlocking ==
    /\ pc = "line183"
    /\ future_documents.state = "done"
    /\ documents' = future_documents.result
    /\ pc' = "line184"
    /\ UNCHANGED <<widgets, question_shown, user, repo,
                   summary_response, achat_response, futures, error>>
    /\ UNCHANGED <<in_session, session, branch_shown, history>>

\* line 183: documents = future_documents.result()
AwaitDocuments ==
    /\ pc = "line183"
    /\ future_documents.state \in {"done", "raised"}
    /\ IF future_documents.state = "done"
       THEN /\ documents' = future_documents.result
            /\ pc' = "line184"
            /\ UNCHANGED <<widgets, question_shown, user, repo,
                           summary_response, achat_response, futures, error>>
       ELSE /\ EndRun("exception")
            /\ question_shown' = FALSE
    /\ UNCHANGED <<in_session, session, branch_shown, history>>

\* line 184
SubmitIndex ==
    /\ pc = "line184"
    /\ future_index' = Running([documents |-> documents])
    /\ calls' = [calls EXCEPT !.create_index = @ + 1]
    /\ pc' = "line185"
    /\ UNCHANGED <<in_session, session, widgets, rendered, locals,
                   future_documents, future_summary, query_futures, error,
                   last_fetch, repeated, answered, link_checks, in_flight>>

\* mutant: create_summary is submitted before the documents are there
SubmitSummaryEarly ==
    /\ pc = "line185"
    /\ future_summary' = Running([documents |-> None])
    /\ calls' = [calls EXCEPT !.create_summary = @ + 1]
    /\ pc' = "line186"
    /\ UNCHANGED <<in_session, session, widgets, rendered, locals,
                   future_documents, future_index, query_futures, error,
                   last_fetch, repeated, answered, link_checks, in_flight>>

\* line 185
SubmitSummary ==
    /\ pc = "line185"
    /\ future_summary' = Running([documents |-> documents])
    /\ calls' = [calls EXCEPT !.create_summary = @ + 1]
    /\ pc' = "line186"
    /\ UNCHANGED <<in_session, session, widgets, rendered, locals,
                   future_documents, future_index, query_futures, error,
                   last_fetch, repeated, answered, link_checks, in_flight>>

\* mutant: the worker stores its index in the session itself
CreateIndexTaskStoring(ok) ==
    /\ future_index.state = "running"
    /\ future_index' =
           IF ok
           THEN Done(future_index,
                     create_index(future_index.args.documents))
           ELSE Raised(future_index)
    /\ index' = IF ok THEN create_index(future_index.args.documents)
                ELSE index
    /\ UNCHANGED <<in_session, github_client, summary, query_engine,
                   summary_query_engine, chat_history, widgets, rendered, pc,
                   locals, future_documents, future_summary, query_futures,
                   error, history>>

\* the worker running create_index (lines 44-46)
CreateIndexTask(ok) ==
    /\ future_index.state = "running"
    /\ future_index' =
           IF ok
           THEN Done(future_index,
                     create_index(future_index.args.documents))
           ELSE Raised(future_index)
    /\ UNCHANGED <<in_session, session, widgets, rendered, pc, locals,
                   future_documents, future_summary, query_futures, error,
                   history>>

\* the worker running create_summary (lines 48-50)
CreateSummaryTask(ok) ==
    /\ future_summary.state = "running"
    /\ future_summary' =
           IF ok
           THEN Done(future_summary,
                     create_summary(future_summary.args.documents))
           ELSE Raised(future_summary)
    /\ UNCHANGED <<in_session, session, widgets, rendered, pc, locals,
                   future_documents, future_index, query_futures, error,
                   history>>

\* line 186: st.session_state.index = future_index.result()
AwaitIndex ==
    /\ pc = "line186"
    /\ future_index.state \in {"done", "raised"}
    /\ IF future_index.state = "done"
       THEN /\ index' = future_index.result
            /\ pc' = "line187"
       ELSE /\ pc' = "raising"
            /\ UNCHANGED index
    /\ UNCHANGED <<in_session, github_client, summary, query_engine,
                   summary_query_engine, chat_history, widgets, rendered,
                   locals, futures, error, history>>

\* mutant: a failed summary build is ignored and main() goes on
AwaitSummarySwallowing ==
    /\ pc = "line187"
    /\ future_summary.state \in {"done", "raised"}
    /\ summary' = IF future_summary.state = "done"
                  THEN future_summary.result ELSE summary
    /\ pc' = "line189"
    /\ UNCHANGED <<widgets, question_shown, locals, futures, error>>
    /\ UNCHANGED <<in_session, github_client, index, query_engine,
                   summary_query_engine, chat_history, branch_shown, history>>

\* line 187: st.session_state.summary = future_summary.result()
AwaitSummary ==
    /\ pc = "line187"
    /\ future_summary.state \in {"done", "raised"}
    /\ IF future_summary.state = "done"
       THEN /\ summary' = future_summary.result
            /\ pc' = "line189"
            /\ UNCHANGED <<widgets, question_shown, locals, futures, error>>
       ELSE /\ EndRun("exception")
            /\ question_shown' = FALSE
            /\ UNCHANGED summary
    /\ UNCHANGED <<in_session, github_client, index, query_engine,
                   summary_query_engine, chat_history, branch_shown, history>>

\* mutant: the executor is shut down without waiting for its tasks
ExecutorExitWithoutWaiting ==
    /\ pc = "raising"
    /\ EndRun("exception")
    /\ question_shown' = (future_summary_query.state # "unset")
    /\ UNCHANGED <<in_session, session, branch_shown, history>>

(***************************************************************************)
(* Leaving a "with ThreadPoolExecutor()" block by an exception: __exit__   *)
(* waits for every submitted task, then the exception leaves main().       *)
(***************************************************************************)
ExecutorExit ==
    /\ pc = "raising"
    /\ Finished(future_documents) /\ Finished(future_index)
    /\ Finished(future_summary) /\ Finished(future_summary_query)
    /\ Finished(future_achat)
    /\ EndRun("exception")
    \* the question box is rendered at line 223, between the two blocks
    /\ question_shown' = (future_summary_query.state # "unset")
    /\ UNCHANGED <<in_session, session, branch_shown, history>>

\* mutant: the summary engine is made from the retrieval index as well
MakeEnginesBothFromIndex(ok1, ok2, q, click) ==
    /\ pc = "line189"
    /\ query_engine # None => ok1
    /\ (summary_query_engine # None \/ ~ok1) => ok2
    /\ (q # "" \/ click) => (question_shown /\ ok1 /\ ok2)
    /\ (click /\ q # "") => Len(chat_history) < MaxHistory
    /\ query_engine' = IF query_engine = None /\ ok1
                       THEN as_chat_engine(index) ELSE query_engine
    /\ summary_query_engine' =
           IF summary_query_engine = None /\ ok1 /\ ok2
           THEN as_chat_engine(index) ELSE summary_query_engine
    /\ IF ~(ok1 /\ ok2)
       THEN /\ EndRun("exception")
            /\ question_shown' = FALSE
       ELSE /\ question_shown' = TRUE
            /\ IF click /\ q # ""
               THEN /\ pc' = "line228"
                    /\ question' = q
                    /\ submit' = click
                    \* branch and excluded_dirs are not read after line 182
                    /\ branch' = ""
                    /\ excluded_dirs' = <<>>
                    /\ UNCHANGED <<github_repo_link, locals, futures, error>>
               ELSE EndRun("none")
    /\ UNCHANGED <<in_session, github_client, index, summary, chat_history,
                   branch_shown, history>>

(***************************************************************************)
(* Lines 189-226: the two chat engines, the transcript, the question box   *)
(* and the button.  ok1 and ok2: whether as_chat_engine returns; q and     *)
(* click: the question box and the button as read at lines 223 and 225.    *)
(***************************************************************************)
MakeEngines(ok1, ok2, q, click) ==
    /\ pc = "line189"
    /\ query_engine # None => ok1
    /\ (summary_query_engine # None \/ ~ok1) => ok2
    /\ (q # "" \/ click) => (question_shown /\ ok1 /\ ok2)
    /\ (click /\ q # "") => Len(chat_history) < MaxHistory
    /\ query_engine' = IF query_engine = None /\ ok1
                       THEN as_chat_engine(index) ELSE query_engine
    /\ summary_query_engine' =
           IF summary_query_engine = None /\ ok1 /\ ok2
           THEN as_chat_engine(summary) ELSE summary_query_engine
    /\ IF ~(ok1 /\ ok2)
       THEN /\ EndRun("exception")
            /\ question_shown' = FALSE
       ELSE /\ question_shown' = TRUE
            /\ IF click /\ q # ""
               THEN /\ pc' = "line228"
                    /\ question' = q
                    /\ submit' = click
                    \* branch and excluded_dirs are not read after line 182
                    /\ branch' = ""
                    /\ excluded_dirs' = <<>>
                    /\ UNCHANGED <<github_repo_link, locals, futures, error>>
               ELSE EndRun("none")
    /\ UNCHANGED <<in_session, github_client, index, summary, chat_history,
                   branch_shown, history>>

\* line 228
SubmitSummaryQuery ==
    /\ pc = "line228"
    /\ future_summary_query' =
           Running([engine |-> summary_query_engine, question |-> question])
    /\ in_flight' = [in_flight EXCEPT !.summary_query_engine = @ + 1]
    /\ pc' = "line229"
    /\ UNCHANGED <<in_session, session, widgets, rendered, locals,
                   build_futures, future_achat, error, calls, last_fetch,
                   repeated, answered, link_checks>>

\* mutant: the retrieval engine is sent a fixed question
SubmitChatStale ==
    /\ pc = "line229"
    /\ future_achat' = Running([engine |-> query_engine, question |-> "q1"])
    /\ in_flight' = [in_flight EXCEPT !.query_engine = @ + 1]
    /\ pc' = "line231"
    /\ UNCHANGED <<in_session, session, widgets, rendered, locals,
                   build_futures, future_summary_query, error, calls,
                   last_fetch, repeated, answered, link_checks>>

\* line 229
SubmitChat ==
    /\ pc = "line229"
    /\ future_achat' =
           Running([engine |-> query_engine, question |-> question])
    /\ in_flight' = [in_flight EXCEPT !.query_engine = @ + 1]
    /\ pc' = "line231"
    /\ UNCHANGED <<in_session, session, widgets, rendered, locals,
                   build_futures, future_summary_query, error, calls,
                   last_fetch, repeated, answered, link_checks>>

\* the worker running summary_query_engine.query(question)
SummaryQueryTask(ok) ==
    /\ future_summary_query.state = "running"
    /\ future_summary_query' =
           IF ok
           THEN Done(future_summary_query,
                     Response(future_summary_query.args.engine,
                              future_summary_query.args.question))
           ELSE Raised(future_summary_query)
    /\ in_flight' = [in_flight EXCEPT !.summary_query_engine = @ - 1]
    /\ UNCHANGED <<in_session, session, widgets, rendered, pc, locals,
                   build_futures, future_achat, error, calls, last_fetch,
                   repeated, answered, link_checks>>

\* the worker running query_engine.chat(question)
ChatTask(ok) ==
    /\ future_achat.state = "running"
    /\ future_achat' =
           IF ok
           THEN Done(future_achat,
                     Response(future_achat.args.engine,
                              future_achat.args.question))
           ELSE Raised(future_achat)
    /\ in_flight' = [in_flight EXCEPT !.query_engine = @ - 1]
    /\ UNCHANGED <<in_session, session, widgets, rendered, pc, locals,
                   build_futures, future_summary_query, error, calls,
                   last_fetch, repeated, answered, link_checks>>

\* mutant: a failure of the summary engine is swallowed
AwaitSummaryResponseSwallowing ==
    /\ pc = "line231"
    /\ future_summary_query.state \in {"done", "raised"}
    /\ summary_response' = IF future_summary_query.state = "done"
                           THEN future_summary_query.result ELSE None
    /\ pc' = "line232"
    /\ UNCHANGED <<in_session, session, widgets, rendered, user, repo,
                   documents, achat_response, futures, error, history>>

\* line 231: summary_response = future_summary.result()
AwaitSummaryResponse ==
    /\ pc = "line231"
    /\ future_summary_query.state \in {"done", "raised"}
    /\ IF future_summary_query.state = "done"
       THEN /\ summary_response' = future_summary_query.result
            /\ pc' = "line232"
       ELSE /\ pc' = "raising"
            /\ UNCHANGED summary_response
    /\ UNCHANGED <<in_session, session, widgets, rendered, user, repo,
                   documents, achat_response, futures, error, history>>

\* line 232: achat_response = future_achat.result()
AwaitChatResponse ==
    /\ pc = "line232"
    /\ future_achat.state \in {"done", "raised"}
    /\ IF future_achat.state = "done"
       THEN /\ achat_response' = future_achat.result
            /\ answered' = Append(answered,
                                  [question |-> future_achat.args.question,
                                   answer |-> future_achat.result.response])
            /\ pc' = "line234"
            /\ UNCHANGED <<widgets, user, repo, documents, summary_response,
                           futures, error>>
       ELSE /\ EndRun("exception")
            /\ UNCHANGED answered
    /\ UNCHANGED <<in_session, session, rendered, calls, last_fetch,
                   repeated, link_checks, in_flight>>

\* mutant: the new entry is put in front of the transcript
AppendHistoryPrepending ==
    /\ pc = "line234"
    /\ chat_history' =
           <<[question |-> question,
              achat_response |-> achat_response.response]>> \o chat_history
    /\ EndRun("none")
    /\ UNCHANGED <<in_session, github_client, index, summary, query_engine,
                   summary_query_engine, rendered, history>>

\* lines 234-238: st.session_state.chat_history.append({...})
AppendHistory ==
    /\ pc = "line234"
    /\ chat_history' =
           Append(chat_history,
                  [question |-> question,
                   achat_response |-> achat_response.response])
    /\ EndRun("none")
    /\ UNCHANGED <<in_session, github_client, index, summary, query_engine,
                   summary_query_engine, rendered, history>>

Next ==
    \/ \E link \in LinkOutcomes :
          \E br \in BranchInputs(link), ex \in ExcludedInputs(link) :
             Rerun(link, br, ex)
    \/ \E ok \in BOOLEAN : LoadDocumentsTask(ok)
    \/ AwaitDocuments
    \/ SubmitIndex
    \/ SubmitSummary
    \/ \E ok \in BOOLEAN : CreateIndexTask(ok)
    \/ \E ok \in BOOLEAN : CreateSummaryTask(ok)
    \/ AwaitIndex
    \/ AwaitSummary
    \/ ExecutorExit
    \/ \E ok1, ok2 \in BOOLEAN, q \in Questions, click \in BOOLEAN :
          MakeEngines(ok1, ok2, q, click)
    \/ SubmitSummaryQuery
    \/ SubmitChat
    \/ \E ok \in BOOLEAN : SummaryQueryTask(ok)
    \/ \E ok \in BOOLEAN : ChatTask(ok)
    \/ AwaitSummaryResponse
    \/ AwaitChatResponse
    \/ AppendHistory

Spec == Init /\ [][Next]_vars

(***************************************************************************)
(* Scheduling.  Every task handed to a ThreadPoolExecutor gets a worker    *)
(* thread (the default pool has at least five, at most three tasks are     *)
(* submitted) and returns or raises; the script thread keeps running       *)
(* main() while it can.  When the user interacts next is up to the user.   *)
(***************************************************************************)
WorkerStep ==
    \E ok \in BOOLEAN :
       \/ LoadDocumentsTask(ok)
       \/ CreateIndexTask(ok)
       \/ CreateSummaryTask(ok)
       \/ SummaryQueryTask(ok)
       \/ ChatTask(ok)

MainStep ==
    \/ AwaitDocuments
    \/ SubmitIndex
    \/ SubmitSummary
    \/ AwaitIndex
    \/ AwaitSummary
    \/ ExecutorExit
    \/ \E ok1, ok2 \in BOOLEAN, q \in Questions, click \in BOOLEAN :
          MakeEngines(ok1, ok2, q, click)
    \/ SubmitSummaryQuery
    \/ SubmitChat
    \/ AwaitSummaryResponse
    \/ AwaitChatResponse
    \/ AppendHistory

SpecLive == Spec /\ WF_vars(WorkerStep) /\ WF_vars(MainStep)

(***************************************************************************)
(* The two URL functions on their own: every URL of the model is           *)
(* validated and taken apart.                                              *)
(***************************************************************************)
InitUrl ==
    /\ github_repo_link \in Urls
    /\ in_session = FALSE
    /\ github_client = None
    /\ index = None
    /\ summary = None
    /\ query_engine = None
    /\ summary_query_engine = None
    /\ chat_history = <<>>
    /\ branch = ""
    /\ excluded_dirs = <<>>
    /\ question = ""
    /\ submit = FALSE
    /\ branch_shown = FALSE
    /\ question_shown = FALSE
    /\ pc = "line129"
    /\ user = None
    /\ repo = None
    /\ documents = None
    /\ summary_response = None
    /\ achat_response = None
    /\ future_documents = Unset
    /\ future_index = Unset
    /\ future_summary = Unset
    /\ future_summary_query = Unset
    /\ future_achat = Unset
    /\ error = "none"
    /\ calls = NoCalls
    /\ last_fetch = None
    /\ repeated = FALSE
    /\ answered = <<>>
    /\ link_checks = {}
    /\ in_flight = NoneInFlight

\* lines 129-131: error becomes "format" when is_valid_github_url is false
Validate ==
    /\ pc = "line129"
    /\ pc' = "line133"
    /\ error' = IF is_valid_github_url(github_repo_link) THEN "none"
                ELSE "format"
    /\ UNCHANGED <<in_session, session, widgets, rendered, locals, futures,
                   history>>

\* line 137: user, repo = extract_github_details(github_repo_link)
Extract ==
    /\ pc = "line133"
    /\ pc' = "line138"
    /\ user' = extract_github_details(github_repo_link)[1]
    /\ repo' = extract_github_details(github_repo_link)[2]
    /\ UNCHANGED <<in_session, session, widgets, rendered, documents,
                   summary_response, achat_response, futures, error, history>>

NextUrl == Validate \/ Extract

SpecUrl == InitUrl /\ [][NextUrl]_vars

(***************************************************************************)
(* Properties.                                                             *)
(***************************************************************************)
EmptySession == <<None, None, None, None, None, <<>>>>

InQuery == pc \in {"line228", "line229", "line231", "line232", "line234"}
               \/ (pc = "raising" /\ future_summary_query.state # "unset")

\* the repository an index was built from is the one of the rerun in progress
BuiltFromCurrentRepo(idx) ==
    idx.documents.user = user /\ idx.documents.repo = repo

IsPrefix(s, t) == Len(s) <= Len(t) /\ SubSeq(t, 1, Len(s)) = s

\* C1: a rerun for a repository other than the one the session was built
\* for resets the session, so once such a rerun is past the build block the
\* stored indices and engines are those of its own repository, and no
\* question is dispatched to an engine built from another repository.
C1_ChangedRepoResetsSession ==
    /\ (pc = "line189" \/ InQuery) =>
          /\ index # None => BuiltFromCurrentRepo(index)
          /\ summary # None => BuiltFromCurrentRepo(summary)
          /\ query_engine # None => BuiltFromCurrentRepo(query_engine.index)
          /\ summary_query_engine # None =>
                 BuiltFromCurrentRepo(summary_query_engine.index)
    /\ future_achat.state = "running" =>
          BuiltFromCurrentRepo(future_achat.args.engine.index)
    /\ future_summary_query.state = "running" =>
          BuiltFromCurrentRepo(future_summary_query.args.engine.index)

\* C2, as claimed: for an unchanged (repo, branch, exclusion-set) the fetch
\* is invoked at most once in a session, so load_documents is never invoked
\* again with the arguments of its previous invocation.
C2_InvokedAtMostOnce == ~repeated

\* C2, as amended: once both the index and the summary are stored, no fetch
\* and no build is invoked again and neither is replaced; the client and each
\* engine, once constructed, are never replaced; every question is dispatched
\* to the engines stored in the session.
C2_BuiltOnceThenReused ==
    [][/\ (index # None /\ summary # None) =>
              (calls' = calls /\ index' = index /\ summary' = summary)
       /\ github_client # None => github_client' = github_client
       /\ query_engine # None => query_engine' = query_engine
       /\ summary_query_engine # None =>
              summary_query_engine' = summary_query_engine
       /\ future_achat'.state = "running" =>
              future_achat'.args.engine = query_engine'
       /\ future_summary_query'.state = "running" =>
              future_summary_query'.args.engine = summary_query_engine'
      ]_vars

\* C2 witness: a second question is in flight in a session whose indices were
\* built by its only fetch, two reruns ago or more.
C2_Witness ==
    /\ pc = "line231"
    /\ Len(chat_history) = 1
    /\ calls = [load_documents |-> 1, create_index |-> 1, create_summary |-> 1]
    /\ future_documents.state = "unset"

\* C3: the session leaves Empty, and the fetcher is invoked, only for a link
\* whose path is one owner and one repository: in every rerun that got past
\* the existence check extract_github_details returned an owner and a
\* repository, and load_documents is never invoked with None for either.
C3_FetchOnlyForOwnerAndRepo ==
    /\ (pc # "idle" /\ github_client # None) => (user # None /\ repo # None)
    /\ future_documents.state # "unset" =>
          /\ future_documents.args.user # None
          /\ future_documents.args.repo # None

\* the form https://github.com/<owner>/<repo>, token by token
RepoUrlForm(url) ==
    /\ Len(url) = 7
    /\ url[1] = "https" /\ url[2] = "://" /\ url[3] = "github.com"
    /\ url[4] = "/" /\ url[5] \notin {"/", "://"}
    /\ url[6] = "/" /\ url[7] \notin {"/", "://"}

\* C4: is_valid_github_url is false of every URL that is not of the form
\* https://github.com/<owner>/<repo>.
C4_OnlyRepoUrlsAreValid ==
    (pc # "line129" /\ ~RepoUrlForm(github_repo_link)) => error = "format"

\* C5: load_documents is never invoked with an empty branch, and when both
\* indices are stored the fetch and the two builds were invoked exactly once.
C5_FetchOnlyWithBranchAndOnce ==
    /\ future_documents.state # "unset" => future_documents.args.branch # ""
    /\ (index # None /\ summary # None) =>
          calls = [load_documents |-> 1, create_index |-> 1,
                   create_summary |-> 1]

\* C6: a rerun that rejects the link (wrong format, or no such repository)
\* shows the error, renders neither the branch box nor the question box,
\* invokes no fetch, no build and no engine call, and changes no session
\* field; a session that was Empty is Empty afterwards.
C6_RejectedLinkChangesNothing ==
    [][(pc = "idle" /\ pc' = "idle" /\ error' \in {"format", "not_exist"}) =>
          /\ session' = session
          /\ session = EmptySession => session' = EmptySession
          /\ calls' = calls
          /\ ~branch_shown' /\ ~question_shown'
          /\ future_documents' = Unset /\ future_index' = Unset
          /\ future_summary' = Unset /\ future_summary_query' = Unset
          /\ future_achat' = Unset
      ]_vars

\* C6 witness: a session that is still Empty after a rerun found that the
\* repository does not exist.
C6_Witness ==
    /\ pc = "idle" /\ error = "not_exist" /\ in_session
    /\ session = EmptySession
    /\ ~branch_shown

C8_AppendOnly == [][IsPrefix(chat_history, chat_history')]_vars

\* C8 witness: a rerun that ended in an exception, or rejected its link,
\* in a session whose transcript has an entry.
C8_Witness ==
    /\ pc = "idle"
    /\ error \in {"exception", "format", "not_exist"}
    /\ Len(chat_history) = 1

\* C9: answering is all-or-nothing: the transcript changes only when both
\* calls of the question returned, and a rerun in which either call raised
\* ends in an exception with the transcript unchanged.
C9_AllOrNothing ==
    [][/\ chat_history' # chat_history =>
              /\ future_summary_query.state = "done"
              /\ future_achat.state = "done"
       /\ (/\ InQuery
           /\ future_summary_query.state = "raised"
                \/ future_achat.state = "raised"
           /\ pc' = "idle") =>
              (chat_history' = chat_history /\ error' = "exception")
      ]_vars

\* C9 witness: the summary engine raised, the retrieval engine answered, and
\* the rerun is ending without a new entry.
C9_Witness ==
    /\ pc = "raising"
    /\ future_summary_query.state = "raised"
    /\ future_achat.state = "done"
    /\ Len(chat_history) = Len(answered)

\* C10: both engines are sent the question of the rerun, as two tasks, and
\* main() is at the append of line 234 only when both tasks have returned.
C10_SameQuestionJoinedPair ==
    /\ future_summary_query.state # "unset" =>
          future_summary_query.args.question = question
    /\ future_achat.state # "unset" =>
          /\ future_summary_query.state # "unset"
          /\ future_achat.args.question = question
          /\ future_achat.args.question = future_summary_query.args.question
    /\ pc = "line234" =>
          /\ future_summary_query.state = "done"
          /\ future_achat.state = "done"

\* C10 witness: the retrieval task has finished first; main() still waits for
\* the summary task, which is running.
C10_Witness ==
    /\ pc = "line231"
    /\ future_achat.state = "done"
    /\ future_summary_query.state = "running"
    /\ question = "q2"

\* C11: no failure of the existence check, the fetch, a build, the engine
\* construction or an engine call leaves main() as an exception: no rerun
\* is ended by an exception, and none is on its way out of an executor block.
C11_NoFailureEscapesMain == error # "exception" /\ pc # "raising"

\* C12: while a build of the rerun has raised nothing is Ready: the summary
\* and both engines are unset, main() is inside the build block and no
\* question is dispatched.  What is stored is never a partial result: a
\* stored index or summary is a complete build of fetched documents, a
\* stored summary comes with the index built from the same fetch, and the
\* engines and the question phase exist only with both of them stored.
C12_FailedBuildLeavesNotReady ==
    /\ (future_index.state = "raised" \/ future_summary.state = "raised") =>
          /\ summary = None
          /\ query_engine = None /\ summary_query_engine = None
          /\ pc \in {"line185", "line186", "line187", "raising"}
          /\ future_summary_query = Unset /\ future_achat = Unset
    /\ index # None =>
          /\ index.documents.kind = "documents"
          /\ index = create_index(index.documents)
    /\ summary # None =>
          /\ index # None
          /\ summary = create_summary(summary.documents)
          /\ summary.documents = index.documents
    /\ (query_engine # None \/ summary_query_engine # None
           \/ pc = "line189" \/ InQuery) =>
          (index # None /\ summary # None)

\* C12 witness: the summary build raised after the index of the same attempt
\* was stored; the rerun has ended and the session has no engine.
C12_Witness ==
    /\ pc = "idle" /\ error = "exception"
    /\ index # None /\ summary = None
    /\ query_engine = None /\ summary_query_engine = None

C14_QuestionReentersNothing ==
    (InQuery /\ chat_history # <<>> /\ BuiltFromCurrentRepo(index)) =>
        /\ link_checks = {}
        /\ future_documents = Unset
        /\ future_index = Unset /\ future_summary = Unset

\* C15: create_index and create_summary are submitted only when
\* load_documents has returned, both with the documents it returned; and
\* when the build block is left, in whichever order the two tasks finished,
\* the stored index and summary are the builds of those documents.
C15_BuildsAfterFetchOnSameDocuments ==
    /\ future_index.state # "unset" =>
          /\ future_documents.state = "done"
          /\ documents = future_documents.result
          /\ future_index.args.documents = documents
    /\ future_summary.state # "unset" =>
          /\ future_documents.state = "done"
          /\ future_index.state # "unset"
          /\ future_summary.args.documents = future_index.args.documents
    /\ (pc = "line189" /\ future_summary.state # "unset") =>
          /\ index = create_index(documents)
          /\ summary = create_summary(documents)

\* C15 witness: the two builds ran as a pair and the summary finished first:
\* main() waits for the index, which is still being built.
C15_Witness ==
    /\ pc = "line186"
    /\ future_index.state = "running"
    /\ future_summary.state = "done"

\* C16: a step in which a worker task finishes changes no session field and
\* does not move main(); index, summary, the engines and chat_history are
\* written by main() only, and index, summary and chat_history only with
\* the result of a task that has been joined.
C16_SingleWriter ==
    [][/\ (\/ future_documents.state = "running"
              /\ future_documents'.state # "running"
           \/ future_index.state = "running"
              /\ future_index'.state # "running"
           \/ future_summary.state = "running"
              /\ future_summary'.state # "running"
           \/ future_summary_query.state = "running"
              /\ future_summary_query'.state \in {"done", "raised"}
           \/ future_achat.state = "running"
              /\ future_achat'.state \in {"done", "raised"}) =>
              (session' = session /\ pc' = pc)
       /\ index' # index =>
              /\ pc = "line186" /\ future_index.state = "done"
              /\ index' = future_index.result
       /\ summary' # summary =>
              /\ pc = "line187" /\ future_summary.state = "done"
              /\ summary' = future_summary.result
       /\ (query_engine' # query_engine
              \/ summary_query_engine' # summary_query_engine) =>
              /\ pc = "line189"
              /\ future_index.state # "running"
              /\ future_summary.state # "running"
       /\ chat_history' # chat_history =>
              /\ pc = "line234"
              /\ future_summary_query.state = "done"
              /\ future_achat.state = "done"
              /\ chat_history'[Len(chat_history')].achat_response =
                     future_achat.result.response
      ]_vars

\* C16 witness: main() has stored the index it joined while the worker
\* building the summary is still running.
C16_Witness ==
    /\ pc = "line187"
    /\ index # None /\ summary = None
    /\ future_summary.state = "running"

\* C17: each engine has at most one invocation running, and none between
\* two reruns: a question is never dispatched to an engine that is still
\* answering an earlier one.
C17_OneInvocationPerEngine ==
    /\ in_flight.query_engine <= 1
    /\ in_flight.summary_query_engine <= 1
    /\ pc = "idle" => in_flight = NoneInFlight

\* C17 witness: the summary call of a second question has raised; main() is
\* leaving the executor block, which waits for the retrieval call still
\* running.
C17_Witness ==
    /\ pc = "raising"
    /\ Len(chat_history) = 1
    /\ future_summary_query.state = "raised"
    /\ in_flight = [query_engine |-> 1, summary_query_engine |-> 0]

InBuild == pc \in {"line183", "line184", "line185", "line186", "line187"}
               \/ (pc = "raising" /\ future_summary_query.state = "unset")

\* C18: with every task returning or raising and main() running on, every
\* rerun ends, so main() never waits for ever on the pool; the build block
\* is left either for line 189 with both indices stored or by an exception
\* that ends the rerun; the question block is left either with the entry
\* appended or by an exception with the transcript unchanged; and no engine
\* exists over one index while the other is missing.
C18_ForkJoinProgress ==
    /\ (pc # "idle") ~> (pc = "idle")
    /\ [][/\ (InBuild /\ ~InBuild') =>
                 \/ pc' = "line189" /\ index' # None /\ summary' # None
                 \/ pc' = "idle" /\ error' = "exception"
          /\ (InQuery /\ ~InQuery') =>
                 /\ pc' = "idle"
                 /\ \/ /\ error' = "exception"
                       /\ chat_history' = chat_history
                    \/ /\ error' = "none"
                       /\ Len(chat_history') = Len(chat_history) + 1
          /\ (query_engine' # None \/ summary_query_engine' # None) =>
                 (index' # None /\ summary' # None)
         ]_vars

\* C18 witness: the index build has raised and main() is blocked in the
\* exit of the executor block, waiting for the summary build still running.
C18_Witness ==
    /\ pc = "raising"
    /\ future_index.state = "raised"
    /\ future_summary.state = "running"

\* C19: an engine is set only with its index set, and is the engine made
\* from the index (the summary) stored in the session now; a question is
\* dispatched, and the question phase entered, only with both engines set.
C19_EnginesBoundToStoredIndices ==
    /\ query_engine # None =>
          (index # None /\ query_engine.index = index)
    /\ summary_query_engine # None =>
          (summary # None /\ summary_query_engine.index = summary)
    /\ (\/ future_summary_query.state # "unset"
        \/ future_achat.state # "unset"
        \/ InQuery) =>
          (query_engine # None /\ summary_query_engine # None)

\* C19 witness: the first build attempt stored an index and failed, the
\* second replaced it; a question is in flight at the engines made from the
\* second attempt's indices.
C19_Witness ==
    /\ pc = "line231"
    /\ index.documents.fetch = 2
    /\ future_achat.state = "running"
    /\ future_achat.args.engine.index.documents.fetch = 2

\* C20: a rerun of a session with both indices stored that gets past the
\* existence check, whatever branch and exclusion list it reads, submits no
\* fetch and no build and goes to line 189 with the stored index and
\* summary; every question is dispatched to engines over the stored ones.
C20_InputsChangeNoRebuild ==
    [][/\ (pc = "idle" /\ pc' # "idle"
              /\ index # None /\ summary # None) =>
              /\ pc' = "line189"
              /\ index' = index /\ summary' = summary
              /\ calls' = calls
              /\ future_documents' = Unset
       /\ future_achat'.state = "running" =>
              future_achat'.args.engine.index = index'
       /\ future_summary_query'.state = "running" =>
              future_summary_query'.args.engine.index = summary'
      ]_vars

\* C20 witness: a rerun for the same repository with another branch and
\* another exclusion list than the stored index was built with is at line
\* 189 without having fetched.
C20_Witness ==
    /\ pc = "line189"
    /\ index # None /\ summary # None
    /\ BuiltFromCurrentRepo(index)
    /\ future_documents = Unset
    /\ branch = "main" /\ index.documents.branch = ""
    /\ excluded_dirs = <<"docs">> /\ index.documents.excluded_dirs = <<>>
====
